---------------------------- MODULE Spec2Model ----------------------------
(***************************************************************************)
(* A model of build_scores.py: the retrying HTTP fetch (get_json), the     *)
(* score computation (norm01, compute_scores), the CSV record layer        *)
(* (csv.writer / csv.reader as used by write_csv and load_and_clean_csv,   *)
(* is_timestamp / is_int / is_float) and the persistence steps of main     *)
(* (write_signals_csv, write_month_csv, write_latest_json).                *)
(*                                                                         *)
(* Representation.                                                         *)
(*  - A text (a CSV field, a file's content) is a sequence of characters;  *)
(*    a character is a one-element TLA+ string.  A word whose inner        *)
(*    letters no function of the program looks at ("BTC/CHF", "hold", a    *)
(*    header name) is written as one character.  NL is the line            *)
(*    terminator "\r\n" of csv.writer, read back as one line break.        *)
(*  - A float is a fixed-point integer counting 1/Scale; the float NaN,    *)
(*    which a weight read from the environment can be, is the value NaN.   *)
(*    The guard constant 1e-9 is below the resolution and is modelled by   *)
(*    the smallest positive value, Eps.                                     *)
(*  - A timestamp "YYYY-MM-DDTHH:MM:SSZ" is written <<M, "T", S, "Z">>:     *)
(*    M is one digit standing for the date group, which carries the UTC    *)
(*    month, and S one digit standing for the time group.  The second      *)
(*    accepted format "YYYY-MM-DD HH:MM:SS" is <<M, " ", S>>.              *)
(*                                                                         *)
(* Specifications.                                                         *)
(*  - Spec: runs of main one after the other on a disk that may hold       *)
(*    hand-edited or cut files, every file operation succeeding.           *)
(*  - SpecFaulty: one run of main in which a file operation can fail.      *)
(*  - SpecFetch: calls of get_json, attempt by attempt.                    *)
(*  - SpecScores: compute_scores applied to responses and weights drawn    *)
(*    from bounded sets.                                                   *)
(***************************************************************************)
EXTENDS Integers, Sequences, FiniteSets, TLC

\* ------------------------------------------------------------------------
\* Program constants
\* ------------------------------------------------------------------------
RETRIES == 3

MinPoints == 15

Window == 14

\* Fixed-point resolution of the modelled floats: 1/Scale.
Scale == 10 * 10 * 10

\* 1e-9 of the source, rounded up to the resolution.
Eps == Scale \div Scale

Comma == ","

Quote == "\""

NL == "\n"

\* A path of the disk: absent, or a file with its text.
NoFile == [exists |-> FALSE, text |-> <<>>]

File(t) == [exists |-> TRUE, text |-> t]

DigitChars == <<"0", "1", "2", "3", "4", "5", "6", "7", "8", "9">>

Digits == {DigitChars[i] : i \in 1..Len(DigitChars)}

Digit(n) == DigitChars[n + 1]

HEADER ==
    << <<"timestamp">>, <<"pair">>, <<"action">>, <<"leverage">>,
       <<"confidence">>, <<"note">>, <<"Score_ETF">>, <<"Score_Stables">>,
       <<"Score_Stress">>, <<"Score_Gewichtet">> >>

\* ------------------------------------------------------------------------
\* Text helpers
\* ------------------------------------------------------------------------
Contains(s, c) == \E i \in 1..Len(s) : s[i] = c

Last(s) == s[Len(s)]

\* Python's str.strip() restricted to the blank.
RECURSIVE LStrip(_)
LStrip(s) == IF s # <<>> /\ Head(s) = " " THEN LStrip(Tail(s)) ELSE s

RECURSIVE RStrip(_)
RStrip(s) ==
    IF s # <<>> /\ Last(s) = " " THEN RStrip(SubSeq(s, 1, Len(s) - 1)) ELSE s

Strip(s) == RStrip(LStrip(s))

Unsigned(s) == IF s # <<>> /\ Head(s) \in {"+", "-"} THEN Tail(s) ELSE s

AllDigits(s) == s # <<>> /\ \A i \in 1..Len(s) : s[i] \in Digits

\* ------------------------------------------------------------------------
\* is_timestamp / is_int / is_float
\* ------------------------------------------------------------------------
\* strptime against "%Y-%m-%d %H:%M:%S", then "%Y-%m-%dT%H:%M:%SZ".
is_timestamp(x) ==
    \/ Len(x) = 3 /\ x[1] \in Digits /\ x[2] = " " /\ x[3] \in Digits
    \/ Len(x) = 4 /\ x[1] \in Digits /\ x[2] = "T" /\ x[3] \in Digits
                  /\ x[4] = "Z"

\* int(x): blanks stripped, an optional sign, one or more digits.
is_int(x) == AllDigits(Unsigned(Strip(x)))

\* float(x): blanks stripped, an optional sign, then "nan", "inf" or a
\* decimal numeral with at most one point and at least one digit.
is_float(x) ==
    LET u == Unsigned(Strip(x))
        points == {i \in 1..Len(u) : u[i] = "."}
    IN  \/ u = <<"nan">>
        \/ u = <<"inf">>
        \/ /\ Cardinality(points) <= 1
           /\ \E i \in 1..Len(u) : u[i] \in Digits
           /\ \A i \in 1..Len(u) : u[i] \in Digits \cup {"."}

\* ------------------------------------------------------------------------
\* csv.writer (excel dialect, QUOTE_MINIMAL) as used by write_csv
\* ------------------------------------------------------------------------
RECURSIVE DoubleQuotes(_)
DoubleQuotes(f) ==
    IF f = <<>> THEN <<>>
    ELSE (IF Head(f) = Quote THEN <<Quote, Quote>> ELSE <<Head(f)>>)
         \o DoubleQuotes(Tail(f))

NeedsQuote(f) == Contains(f, Comma) \/ Contains(f, Quote) \/ Contains(f, NL)

WriteField(f) ==
    IF NeedsQuote(f) THEN <<Quote>> \o DoubleQuotes(f) \o <<Quote>> ELSE f

RECURSIVE JoinFields(_)
JoinFields(r) ==
    IF r = <<>> THEN <<>>
    ELSE IF Len(r) = 1 THEN WriteField(r[1])
    ELSE WriteField(Head(r)) \o <<Comma>> \o JoinFields(Tail(r))

writerow(r) == JoinFields(r) \o <<NL>>

RECURSIVE writerows(_)
writerows(rows) ==
    IF rows = <<>> THEN <<>> ELSE writerow(Head(rows)) \o writerows(Tail(rows))

\* The text write_csv leaves in the file: the header line, then the rows.
write_csv(rows) == writerow(HEADER) \o writerows(rows)

\* ------------------------------------------------------------------------
\* csv.reader (excel dialect, not strict) as used by load_and_clean_csv
\* ------------------------------------------------------------------------
\* Parser states of the reader: START_RECORD, START_FIELD, IN_FIELD,
\* IN_QUOTED_FIELD, QUOTE_IN_QUOTED_FIELD.  EAT_CRNL is passed through
\* within the one character NL.

\* The first position from i on that holds a character of cs, or the
\* position after the text.
RECURSIVE NextAt(_, _, _)
NextAt(text, i, cs) ==
    IF i > Len(text) \/ text[i] \in cs THEN i ELSE NextAt(text, i + 1, cs)

\* One record: the characters from position i until the reader is back in
\* START_RECORD or the input ends.  got tells whether a record is returned,
\* next is the position after it.  A run of characters that the state adds
\* to the field one by one is added at once.
RECURSIVE read_record(_, _, _, _, _)
read_record(text, i, st, fld, rec) ==
    IF i > Len(text)
    THEN \* end of input: an open field or record is saved and returned
         [got |-> st # "START_RECORD", rec |-> Append(rec, fld), next |-> i]
    ELSE LET c == text[i]
             s == IF st = "START_RECORD" /\ c # NL THEN "START_FIELD" ELSE st
             run == NextAt(text, i, {Comma, NL})
             quoted == NextAt(text, i, {Quote})
             emit(fields) == [got |-> TRUE, rec |-> fields, next |-> i + 1]
         IN  CASE s = "START_RECORD" ->
                    \* an empty line: the reader returns []
                    emit(<<>>)
               [] s = "START_FIELD" ->
                    IF c = NL THEN emit(Append(rec, <<>>))
                    ELSE IF c = Quote
                    THEN read_record(text, i + 1, "IN_QUOTED_FIELD", <<>>, rec)
                    ELSE IF c = Comma
                    THEN read_record(text, i + 1, "START_FIELD", <<>>,
                                     Append(rec, <<>>))
                    ELSE read_record(text, run, "IN_FIELD",
                                     SubSeq(text, i, run - 1), rec)
               [] s = "IN_FIELD" ->
                    IF c = NL THEN emit(Append(rec, fld))
                    ELSE IF c = Comma
                    THEN read_record(text, i + 1, "START_FIELD", <<>>,
                                     Append(rec, fld))
                    ELSE read_record(text, run, "IN_FIELD",
                                     fld \o SubSeq(text, i, run - 1), rec)
               [] s = "IN_QUOTED_FIELD" ->
                    IF c = Quote
                    THEN read_record(text, i + 1, "QUOTE_IN_QUOTED_FIELD",
                                     fld, rec)
                    ELSE read_record(text, quoted, "IN_QUOTED_FIELD",
                                     fld \o SubSeq(text, i, quoted - 1), rec)
               [] OTHER -> \* QUOTE_IN_QUOTED_FIELD
                    IF c = Quote
                    THEN read_record(text, i + 1, "IN_QUOTED_FIELD",
                                     Append(fld, c), rec)
                    ELSE IF c = Comma
                    THEN read_record(text, i + 1, "START_FIELD", <<>>,
                                     Append(rec, fld))
                    ELSE IF c = NL THEN emit(Append(rec, fld))
                    ELSE read_record(text, i + 1, "IN_FIELD", Append(fld, c),
                                     rec)

RECURSIVE read_records(_, _, _)
read_records(text, i, out) ==
    LET r == read_record(text, i, "START_RECORD", <<>>, <<>>)
    IN  IF ~r.got THEN out
        ELSE read_records(text, r.next, Append(out, r.rec))

\* Every record csv.reader yields for a file's text.
reader(text) == read_records(text, 1, <<>>)

\* ------------------------------------------------------------------------
\* load_and_clean_csv
\* ------------------------------------------------------------------------
\* The loop body without the leverage check.
RowKeptAnyLeverage(raw) ==
    IF Len(raw) # 10 THEN FALSE
    ELSE IF ~is_timestamp(raw[1]) THEN FALSE
    ELSE IF ~is_float(raw[5]) THEN FALSE
    ELSE IF ~is_float(raw[7]) THEN FALSE
    ELSE IF ~is_float(raw[8]) THEN FALSE
    ELSE IF ~is_float(raw[9]) THEN FALSE
    ELSE IF ~is_float(raw[10]) THEN FALSE
    ELSE TRUE

\* The loop body's checks, in the order of the source; TRUE when the row
\* reaches rows.append.
RowKept(raw) ==
    IF Len(raw) # 10 THEN FALSE
    ELSE IF ~is_timestamp(raw[1]) THEN FALSE
    ELSE IF ~is_int(raw[4]) THEN FALSE
    ELSE IF ~is_float(raw[5]) THEN FALSE
    ELSE IF ~is_float(raw[7]) THEN FALSE
    ELSE IF ~is_float(raw[8]) THEN FALSE
    ELSE IF ~is_float(raw[9]) THEN FALSE
    ELSE IF ~is_float(raw[10]) THEN FALSE
    ELSE TRUE

RECURSIVE CleanLoop(_, _, _)
CleanLoop(recs, first, rows) ==
    IF recs = <<>> THEN rows
    ELSE IF first THEN CleanLoop(Tail(recs), FALSE, rows)
    ELSE IF RowKept(Head(recs))
         THEN CleanLoop(Tail(recs), FALSE, Append(rows, Head(recs)))
         ELSE CleanLoop(Tail(recs), FALSE, rows)

\* No rows when os.path.exists(path) is false.
load_and_clean_csv(file) ==
    IF ~file.exists THEN <<>> ELSE CleanLoop(reader(file.text), TRUE, <<>>)

\* ------------------------------------------------------------------------
\* Floats: fixed point in units of 1/Scale, or NaN
\* ------------------------------------------------------------------------
Fl(n) == [nan |-> FALSE, v |-> n]

NaN == [nan |-> TRUE, v |-> 0]

\* A whole number as a float.
Num(k) == Fl(k * Scale)

FAdd(a, b) == IF a.nan \/ b.nan THEN NaN ELSE Fl(a.v + b.v)

FSub(a, b) == IF a.nan \/ b.nan THEN NaN ELSE Fl(a.v - b.v)

FMul(a, b) == IF a.nan \/ b.nan THEN NaN ELSE Fl((a.v * b.v) \div Scale)

FDiv(a, b) == IF a.nan \/ b.nan THEN NaN ELSE Fl((a.v * Scale) \div b.v)

FNeg(a) == IF a.nan THEN NaN ELSE Fl(0 - a.v)

FAbs(a) == IF a.nan THEN NaN ELSE Fl(IF a.v < 0 THEN 0 - a.v ELSE a.v)

\* Every comparison with NaN is false.
FLess(a, b) == ~a.nan /\ ~b.nan /\ a.v < b.v

FLeq(a, b) == ~a.nan /\ ~b.nan /\ a.v <= b.v

\* Python's min(a, b) and max(a, b): the first argument, unless the second
\* is strictly smaller (greater).
PyMin(a, b) == IF FLess(b, a) THEN b ELSE a

PyMax(a, b) == IF FLess(a, b) THEN b ELSE a

RECURSIVE FSum(_)
FSum(xs) == IF xs = <<>> THEN Fl(0) ELSE FAdd(Head(xs), FSum(Tail(xs)))

\* statistics.fmean
fmean(xs) == Fl(FSum(xs).v \div Len(xs))

RECURSIVE SqrtSearch(_, _, _)
SqrtSearch(n, lo, hi) ==
    IF lo >= hi THEN lo
    ELSE LET mid == (lo + hi + 1) \div 2
         IN  IF mid * mid <= n THEN SqrtSearch(n, mid, hi)
             ELSE SqrtSearch(n, lo, mid - 1)

\* The integer square root; 46340 is the largest root of a 32-bit integer.
ISqrt(n) == SqrtSearch(n, 0, IF n < 46340 THEN n ELSE 46340)

RECURSIVE SumSq(_, _)
SumSq(xs, mu) ==
    IF xs = <<>> THEN 0
    ELSE (Head(xs).v - mu.v) * (Head(xs).v - mu.v) + SumSq(Tail(xs), mu)

\* statistics.pstdev: the population standard deviation.
pstdev(xs) == Fl(ISqrt(SumSq(xs, fmean(xs)) \div Len(xs)))

\* Python's s[-k:]
LastN(s, k) == SubSeq(s, IF Len(s) > k THEN Len(s) - k + 1 ELSE 1, Len(s))

\* Python's s[-k:-1]
LastNButOne(s, k) ==
    SubSeq(s, IF Len(s) > k THEN Len(s) - k + 1 ELSE 1, Len(s) - 1)

\* x or d
OrElse(x, d) == IF ~x.nan /\ x.v = 0 THEN d ELSE x

\* ------------------------------------------------------------------------
\* to_fixed, norm01
\* ------------------------------------------------------------------------
RECURSIVE IntDigits(_)
IntDigits(n) ==
    IF n < 10 THEN <<Digit(n)>> ELSE Append(IntDigits(n \div 10), Digit(n % 10))

RECURSIVE FracDigits(_, _)
FracDigits(rem, n) ==
    IF n = 0 THEN <<>>
    ELSE <<Digit((rem * 10) \div Scale)>>
         \o FracDigits((rem * 10) % Scale, n - 1)

\* A formatting that writes the decimal comma of a locale.
to_fixed_comma(x, n) ==
    IF x.nan THEN <<"nan">>
    ELSE LET a == IF x.v < 0 THEN 0 - x.v ELSE x.v
         IN  (IF x.v < 0 THEN <<"-">> ELSE <<>>)
             \o IntDigits(a \div Scale) \o <<Comma>>
             \o FracDigits(a % Scale, n)

\* f"{float(x):.{n}f}".  No value of the model has more than the digits the
\* resolution holds, so no digit is rounded away.
to_fixed(x, n) ==
    IF x.nan THEN <<"nan">>
    ELSE LET a == IF x.v < 0 THEN 0 - x.v ELSE x.v
         IN  (IF x.v < 0 THEN <<"-">> ELSE <<>>)
             \o IntDigits(a \div Scale) \o <<".">> \o FracDigits(a % Scale, n)

RECURSIVE Pow10(_)
Pow10(n) == IF n = 0 THEN 1 ELSE 10 * Pow10(n - 1)

\* round(x, n): to the nearest multiple of 10^-n, ties to even.  With
\* 10^n >= Scale every value of the model is such a multiple already.
round(x, n) ==
    IF x.nan THEN NaN
    ELSE IF Pow10(n) >= Scale THEN x
    ELSE LET q == Scale \div Pow10(n)
             lo == (x.v \div q) * q
             r == x.v - lo
         IN  IF 2 * r < q THEN Fl(lo)
             ELSE IF 2 * r > q THEN Fl(lo + q)
             ELSE IF (lo \div q) % 2 = 0 THEN Fl(lo) ELSE Fl(lo + q)

norm01(x, lo, hi) ==
    IF FLeq(hi, lo) THEN Fl(0)
    ELSE LET v == FDiv(FSub(x, lo), FSub(hi, lo))
         IN  PyMax(Num(0), PyMin(Num(1), v))

\* ------------------------------------------------------------------------
\* fetch_stable_caps, compute_scores
\* ------------------------------------------------------------------------
\* The sums over the rows of the markets response j; a row's missing or
\* null field counts 0.0.  ids is STABLE_IDS: with none, no request is made.
RECURSIVE SumField(_, _)
SumField(j, has) ==
    IF j = <<>> THEN Fl(0)
    ELSE FAdd(IF has = "cap"
              THEN (IF Head(j).has_cap THEN Head(j).market_cap ELSE Fl(0))
              ELSE (IF Head(j).has_change THEN Head(j).market_cap_change_24h
                    ELSE Fl(0)),
              SumField(Tail(j), has))

stable_caps(j) == [cap |-> SumField(j, "cap"), delta |-> SumField(j, "change")]

\* rets[i] for i = 1 .. len(closes) - 1
Returns(closes) ==
    [i \in 1..(Len(closes) - 1) |->
        FDiv(FSub(closes[i + 1], closes[i]), PyMax(Fl(Eps), closes[i]))]

NoScores == [Score_ETF |-> Fl(0), Score_Stables |-> Fl(0),
             Score_Stress |-> Fl(0), Score_Gewichtet |-> Fl(0)]

\* The weighted sum with the upper clamp left out.
WeightedNoCeiling(W, e, s, t) ==
    PyMax(Num(0),
          FAdd(FAdd(FMul(W.etf, e), FMul(W.stables, s)), FMul(W.stress, t)))

\* The weighted score: max(0.0, min(1.0, W_ETF*e + W_STABLES*s + W_STRESS*t))
Weighted(W, e, s, t) ==
    PyMax(Num(0),
          PyMin(Num(1),
                FAdd(FAdd(FMul(W.etf, e), FMul(W.stables, s)),
                     FMul(W.stress, t))))

\* The arithmetic of compute_scores on the two fetched payloads: closes and
\* vols are the value columns of market["prices"] and
\* market["total_volumes"], j the markets response.
ScoresOf(closes, vols, j, W) ==
    LET sma_prev == fmean(LastNButOne(closes, MinPoints))
        sma_now == fmean(LastN(closes, Window))
        mom == FDiv(FSub(sma_now, sma_prev), PyMax(Fl(Eps), sma_prev))
        mean_v == fmean(LastN(vols, Window))
        std_v == OrElse(pstdev(LastN(vols, Window)), Num(1))
        z == FDiv(FSub(Last(vols), mean_v), std_v)
        imp == FAdd(Fl(mom.v \div 2), Fl((z.v \div 2) \div 2))
        score_etf == norm01(imp, Fl(0 - (3 * Scale) \div 100),
                            Fl((3 * Scale) \div 100))
        sc == stable_caps(j)
        rel == IF FLess(Fl(0), sc.cap)
               THEN FDiv(sc.delta, PyMax(Fl(Eps), sc.cap)) ELSE Fl(0)
        score_stables == norm01(FNeg(rel), Fl(0 - Scale \div 100),
                                Fl(Scale \div 100))
        rets == Returns(closes)
        vol == FAbs(OrElse(pstdev(LastN(rets, Window)), Fl(0)))
        score_stress == norm01(vol, Fl((5 * Scale) \div 1000),
                               Fl((3 * Scale) \div 100))
        score_weighted == Weighted(W, score_etf, score_stables, score_stress)
    IN  [Score_ETF |-> round(score_etf, 6),
         Score_Stables |-> round(score_stables, 6),
         Score_Stress |-> round(score_stress, 6),
         Score_Gewichtet |-> round(score_weighted, 6)]

\* The length check with "and" for "or".
compute_scores_and(market, markets, W) ==
    IF ~market.ok THEN [err |-> "GetFailed", scores |-> NoScores]
    ELSE IF Len(market.prices) < MinPoints
            /\ Len(market.total_volumes) < MinPoints
    THEN [err |-> "NotEnoughData", scores |-> NoScores]
    ELSE IF ~markets.ok THEN [err |-> "GetFailed", scores |-> NoScores]
    ELSE [err |-> "none",
          scores |-> ScoresOf(market.prices, market.total_volumes,
                              markets.rows, W)]

\* compute_scores: the outcome for the responses of the two requests.
\* market and markets are [ok |-> FALSE] when get_json raised.
compute_scores(market, markets, W) ==
    IF ~market.ok THEN [err |-> "GetFailed", scores |-> NoScores]
    ELSE IF Len(market.prices) < MinPoints
            \/ Len(market.total_volumes) < MinPoints
    THEN [err |-> "NotEnoughData", scores |-> NoScores]
    ELSE IF ~markets.ok THEN [err |-> "GetFailed", scores |-> NoScores]
    ELSE [err |-> "none",
          scores |-> ScoresOf(market.prices, market.total_volumes,
                              markets.rows, W)]

\* ------------------------------------------------------------------------
\* Bounds of the model
\* ------------------------------------------------------------------------
\* Runs of the program (one scheduled job execution each).
MaxRuns == 2

\* TicksPerMonth ticks of the UTC clock make a month; the clock runs from 0
\* through the first month to the first tick of the second.
TicksPerMonth == 2

MaxClock == TicksPerMonth

\* Calls of get_json in the fetch specification.
MaxCalls == 2

Months == 0..(MaxClock \div TicksPerMonth)

\* ------------------------------------------------------------------------
\* The clock: utc_now_iso and strftime("%Y-%m")
\* ------------------------------------------------------------------------
utc_now_iso(now) ==
    <<Digit(now \div TicksPerMonth), "T", Digit(now % TicksPerMonth), "Z">>

year_month(now) == now \div TicksPerMonth

\* ------------------------------------------------------------------------
\* build_new_row and the three writers
\* ------------------------------------------------------------------------
build_new_row(sc, e, now) ==
    << utc_now_iso(now),
       e.pair,
       e.action,
       <<"0">>,
       to_fixed(sc.Score_Gewichtet, 6),
       e.note,
       to_fixed(sc.Score_ETF, 6),
       to_fixed(sc.Score_Stables, 6),
       to_fixed(sc.Score_Stress, 6),
       to_fixed(sc.Score_Gewichtet, 6) >>

\* write_signals_csv skipping a row the file already holds.
write_signals_csv_dedup(file, new_row) ==
    LET rows == load_and_clean_csv(file)
    IN  write_csv(IF \E i \in 1..Len(rows) : rows[i] = new_row THEN rows
                  ELSE Append(rows, new_row))

\* The text write_signals_csv leaves in the file at path.
write_signals_csv(file, new_row) ==
    LET rows == load_and_clean_csv(file)
    IN  write_csv(Append(rows, new_row))

RowKey(r) == <<r[1], r[2], r[3]>>

\* write_month_csv without the key test.
write_month_csv_always(file, new_row) ==
    write_csv(Append(load_and_clean_csv(file), new_row))

\* The text write_month_csv leaves in the monthly file.
write_month_csv(file, new_row) ==
    LET month_rows == load_and_clean_csv(file)
        seen == {RowKey(month_rows[i]) : i \in 1..Len(month_rows)}
        key == RowKey(new_row)
    IN  write_csv(IF key \notin seen THEN Append(month_rows, new_row)
                  ELSE month_rows)

\* The content write_latest_json leaves in latest.json.
write_latest_json(sc, now) ==
    [exists |-> TRUE, whole |-> TRUE, utc |-> utc_now_iso(now), scores |-> sc]

NoLatest == [exists |-> FALSE, whole |-> FALSE, utc |-> <<>>,
             scores |-> NoScores]

\* latest.json opened for writing and not written to the end.
CutLatest == [exists |-> TRUE, whole |-> FALSE, utc |-> <<>>,
              scores |-> NoScores]

\* What a failed rewrite of a CSV file can leave: the file as it was (the
\* open failed), or the file truncated by open(path, "w") holding nothing or
\* a first part of the new text.
FailedWrite(old, text) ==
    {old, File(<<>>), File(SubSeq(text, 1, Len(text) \div 2))}

\* ------------------------------------------------------------------------
\* main: the order of the three writes
\* ------------------------------------------------------------------------
Steps == <<"signals", "month", "latest">>

\* main with the snapshot written before the monthly log.
StepAfterSwapped(p) ==
    CASE p = "compute" -> "build"
      [] p = "build" -> "signals"
      [] p = "signals" -> "latest"
      [] p = "latest" -> "month"
      [] p = "month" -> "report"
      [] OTHER -> "done"

\* The statement of main that follows the statement at p.
StepAfter(p) ==
    CASE p = "compute" -> "build"
      [] p = "build" -> "signals"
      [] p = "signals" -> "month"
      [] p = "month" -> "latest"
      [] p = "latest" -> "report"
      [] OTHER -> "done"

\* ------------------------------------------------------------------------
\* get_json: the retry loop
\* ------------------------------------------------------------------------
\* A loop that runs once more: range(1, RETRIES + 2).
OneMoreAttempt(attempt) == attempt <= RETRIES

\* for attempt in range(1, RETRIES + 1): another iteration follows attempt.
MoreAttempts(attempt) == attempt < RETRIES

\* The except clause is followed by time.sleep on every failed attempt.
SleepsAfterFailure(attempt) == TRUE

Urls == {"coins/bitcoin/market_chart", "coins/markets"}

ParamsOf(url) ==
    IF url = "coins/bitcoin/market_chart" THEN "vs_currency,days,interval"
    ELSE "vs_currency,ids,price_change_percentage"

\* What requests.get / raise_for_status / r.json can raise.
Excs == {"Timeout", "HTTPError", "ConnectionError"}

Bodies == {"json1", "json2"}

GjIdle == [st |-> "idle", calls |-> 0, url |-> "", params |-> "",
           attempt |-> 0, sleeps |-> 0, last_exc |-> "None", ret |-> "None",
           raised |-> <<>>, log |-> <<>>]

\* ------------------------------------------------------------------------
\* Inputs of a run: the environment and the two responses
\* ------------------------------------------------------------------------
DefaultW == [etf |-> Fl((6 * Scale) \div 10), stables |-> Fl((3 * Scale) \div 10),
             stress |-> Fl(Scale \div 10)]

DefaultEnv == [pair |-> <<"BTC/CHF">>, action |-> <<"hold">>,
               note |-> <<"coingecko-auto">>, W |-> DefaultW]

\* A configuration whose labels need quoting in a CSV line.
OddEnv == [pair |-> <<"BTC", Comma, Quote, "CHF">>, action |-> <<"hold">>,
           note |-> <<"auto", NL, "x">>,
           W |-> [etf |-> Num(2), stables |-> Fl(0 - Scale), stress |-> NaN]]

Envs == {DefaultEnv, OddEnv}

Rep(n, k) == [i \in 1..n |-> Num(k)]

NoResponse == [ok |-> FALSE, prices |-> <<>>, total_volumes |-> <<>>]

Market(closes, vols) == [ok |-> TRUE, prices |-> closes, total_volumes |-> vols]

StableRow(cap, change) ==
    [has_cap |-> TRUE, market_cap |-> cap, has_change |-> TRUE,
     market_cap_change_24h |-> change]

NoChangeRow(cap) ==
    [has_cap |-> TRUE, market_cap |-> cap, has_change |-> FALSE,
     market_cap_change_24h |-> Fl(0)]

NoMarkets == [ok |-> FALSE, rows |-> <<>>]

Markets(rows) == [ok |-> TRUE, rows |-> rows]

\* The market_chart responses of the runs: the request raising, 14 close
\* points, 15 close and 14 volume points, and a sufficient series.
RunMarkets ==
    { NoResponse,
      Market(Rep(MinPoints - 1, 100), Rep(MinPoints, 1000)),
      Market(Rep(MinPoints, 100), Rep(MinPoints - 1, 1000)),
      Market(Rep(MinPoints - 1, 100) \o <<Num(110)>>, Rep(MinPoints, 1000)) }

RunStables ==
    { NoMarkets,
      Markets(<<StableRow(Num(600), Num(0)), NoChangeRow(Num(400))>>) }

\* ------------------------------------------------------------------------
\* The disk before the first run
\* ------------------------------------------------------------------------
\* A valid row in the second accepted timestamp format.
OldRow ==
    << <<"0", " ", "0">>, <<"BTC/CHF">>, <<"hold">>, <<"0">>,
       <<"0", ".", "5">>, <<"old">>, <<"0", ".", "5">>, <<"1">>, <<"nan">>,
       <<"-", ".", "5">> >>

\* A valid row with the key of the default configuration's row at clock 0.
SameKeyRow == [OldRow EXCEPT ![1] = utc_now_iso(0), ![6] = <<"manual">>]

PaddedRow == [OldRow EXCEPT ![4] = <<" ", "7">>, ![6] = <<"a", Quote, "b">>]

NineFields == SubSeq(OldRow, 1, 9)

BadLeverage == [OldRow EXCEPT ![4] = <<"1", ".", "5">>]

BadScore == [OldRow EXCEPT ![8] = <<"abc">>]

BadConfidence == [OldRow EXCEPT ![5] = <<"0", ".", "5", ".">>]

BadTimestamp == [OldRow EXCEPT ![1] = <<"0", "T", "0">>]

\* A line whose quoted field is never closed.
OpenQuoteLine == <<"0", " ", "0", Comma, Quote, "x", NL>>

NoReports == [m \in Months |-> NoFile]

Disks ==
    { [signals |-> NoFile, reports |-> NoReports, latest |-> NoLatest],
      [signals |-> File(write_csv(<<OldRow, NineFields, BadLeverage,
                                    PaddedRow>>)),
       reports |-> [NoReports EXCEPT
                      ![0] = File(write_csv(<<BadScore, SameKeyRow>>))],
       latest |-> write_latest_json(NoScores, 0)],
      [signals |-> File(writerow(HEADER) \o writerow(BadConfidence)
                        \o OpenQuoteLine \o writerow(OldRow)),
       reports |-> [NoReports EXCEPT
                      ![0] = File(writerow(HEADER) \o writerow(BadTimestamp)
                                  \o JoinFields(OldRow)),
                      ![1] = File(<<>>)],
       latest |-> CutLatest] }

\* ------------------------------------------------------------------------
\* State
\* ------------------------------------------------------------------------
VARIABLES
    pc,          \* the statement of main the run is at, or idle/done/failed
    runs,        \* runs started
    env,         \* the run's environment parameters
    fetched,     \* the run's responses: market, markets
    scores,      \* main's scores
    row,         \* main's row
    month_path,  \* main's month_path: the month of reports/YYYY-MM.csv
    err,         \* the exception that ended the run
    exit,        \* the process exit status
    clock,       \* the UTC clock
    signals,     \* signals.csv
    reports,     \* reports/YYYY-MM.csv by month
    latest,      \* latest.json
    start,       \* the disk when the run started
    written,     \* the writes the run has completed, in order
    sig_base,    \* the valid rows of signals.csv at the start or after
                 \* the last failed rewrite of it
    sig_app,     \* the rows appended to signals.csv since
    m_base,      \* each monthly file at the start or after the last
                 \* failed rewrite of it
    m_keys,      \* the keys of the rows given to write_month_csv for each
                 \* monthly file since
    gj           \* a call of get_json

vars == <<pc, runs, env, fetched, scores, row, month_path, err, exit, clock,
          signals, reports, latest, start, written, sig_base,
          sig_app, m_base, m_keys, gj>>

disk == <<signals, reports, latest>>

local == <<env, fetched, scores, row, month_path, err, start, written>>

hist == <<sig_base, sig_app, m_base, m_keys>>

NoFetch == [market |-> NoResponse, markets |-> NoMarkets]

NoStart == [signals |-> NoFile, reports |-> NoReports, latest |-> NoLatest]

NoKeys == [m \in Months |-> <<>>]

InitLocal ==
    /\ env = DefaultEnv /\ fetched = NoFetch /\ scores = NoScores
    /\ row = <<>> /\ month_path = 0 /\ err = "none" /\ start = NoStart
    /\ written = <<>>

Init ==
    /\ pc = "idle" /\ runs = 0 /\ exit = 0 /\ clock = 0
    /\ InitLocal
    /\ \E d \in Disks :
          /\ signals = d.signals /\ reports = d.reports /\ latest = d.latest
          /\ sig_base = load_and_clean_csv(d.signals)
          /\ m_base = d.reports
    /\ sig_app = <<>> /\ m_keys = NoKeys
    /\ gj = GjIdle

\* ------------------------------------------------------------------------
\* A run of main, one action per statement.  Between two statements the
\* clock can advance and a file operation can fail; a tick is taken where
\* the next statement reads the clock.
\* ------------------------------------------------------------------------
\* The process starts: os.getenv reads the configuration.
StartRun ==
    /\ pc = "idle" /\ runs < MaxRuns
    /\ \E e \in Envs : env' = e
    /\ pc' = "compute" /\ runs' = runs + 1 /\ exit' = 0
    /\ start' = [signals |-> signals, reports |-> reports, latest |-> latest]
    /\ written' = <<>> /\ err' = "none"
    /\ UNCHANGED <<fetched, scores, row, month_path, clock, disk, hist,
                   gj>>

\* scores = compute_scores()
ComputeScores ==
    /\ pc = "compute"
    /\ \E m \in RunMarkets, j \in RunStables :
          LET r == compute_scores(m, j, env.W)
              second == m.ok /\ r.err # "NotEnoughData"
          IN  /\ fetched' = [market |-> m,
                             markets |-> IF second THEN j ELSE NoMarkets]
              /\ IF r.err = "none"
                 THEN /\ scores' = r.scores /\ pc' = StepAfter(pc)
                      /\ UNCHANGED <<err, exit>>
                 ELSE /\ pc' = "failed" /\ err' = r.err /\ exit' = 1
                      /\ UNCHANGED scores
    /\ UNCHANGED <<runs, env, row, month_path, clock, disk, start,
                   written, hist, gj>>

\* row = build_new_row(scores)
BuildRow ==
    /\ pc = "build"
    /\ row' = build_new_row(scores, env, clock)
    /\ pc' = StepAfter(pc)
    /\ UNCHANGED <<runs, env, fetched, scores, month_path, err, exit, clock,
                   disk, start, written, hist, gj>>

Fail(e) == pc' = "failed" /\ err' = e /\ exit' = 1

\* write_signals_csv("signals.csv", row)
WriteSignals ==
    /\ pc = "signals"
    /\ signals' = File(write_signals_csv(signals, row))
    /\ written' = Append(written, "signals")
    /\ sig_app' = Append(sig_app, row)
    /\ pc' = StepAfter(pc)
    /\ UNCHANGED <<runs, env, fetched, scores, row, month_path, err, exit,
                   clock, reports, latest, start, sig_base, m_base, m_keys,
                   gj>>

\* write_signals_csv raises OSError.
WriteSignalsFails ==
    /\ pc = "signals"
    /\ \E f \in FailedWrite(signals, write_signals_csv(signals, row)) :
          /\ signals' = f
          /\ IF f = signals THEN UNCHANGED <<sig_base, sig_app>>
             ELSE sig_base' = load_and_clean_csv(f) /\ sig_app' = <<>>
    /\ Fail("IOError")
    /\ UNCHANGED <<runs, env, fetched, scores, row, month_path, clock,
                   reports, latest, start, written, m_base, m_keys, gj>>

\* month_path = write_month_csv(row)
WriteMonth ==
    /\ pc = "month"
    /\ LET ym == year_month(clock)
       IN  /\ reports' = [reports EXCEPT
                            ![ym] = File(write_month_csv(reports[ym], row))]
           /\ month_path' = ym
           /\ m_keys' = [m_keys EXCEPT ![ym] = Append(@, RowKey(row))]
    /\ written' = Append(written, "month")
    /\ pc' = StepAfter(pc)
    /\ UNCHANGED <<runs, env, fetched, scores, row, err, exit, clock,
                   signals, latest, start, sig_base, sig_app, m_base, gj>>

\* write_month_csv raises OSError.
WriteMonthFails ==
    /\ pc = "month"
    /\ LET ym == year_month(clock)
       IN  \E f \in FailedWrite(reports[ym],
                                write_month_csv(reports[ym], row)) :
              /\ reports' = [reports EXCEPT ![ym] = f]
              /\ IF f = reports[ym] THEN UNCHANGED <<m_base, m_keys>>
                 ELSE /\ m_base' = [m_base EXCEPT ![ym] = f]
                      /\ m_keys' = [m_keys EXCEPT ![ym] = <<>>]
    /\ Fail("IOError")
    /\ UNCHANGED <<runs, env, fetched, scores, row, month_path, clock,
                   signals, latest, start, written, sig_base, sig_app, gj>>

\* write_latest_json(scores)
WriteLatest ==
    /\ pc = "latest"
    /\ latest' = write_latest_json(scores, clock)
    /\ written' = Append(written, "latest")
    /\ pc' = StepAfter(pc)
    /\ UNCHANGED <<runs, env, fetched, scores, row, month_path, err, exit,
                   clock, signals, reports, start, hist, gj>>

\* write_latest_json raises OSError.
WriteLatestFails ==
    /\ pc = "latest"
    /\ \E f \in {latest, CutLatest} : latest' = f
    /\ Fail("IOError")
    /\ UNCHANGED <<runs, env, fetched, scores, row, month_path, clock,
                   signals, reports, start, written, hist, gj>>

\* print("OK", ...): main returns and the process exits 0.
Report ==
    /\ pc = "report"
    /\ pc' = "done" /\ exit' = 0
    /\ UNCHANGED <<runs, local, clock, disk, hist, gj>>

\* The process is gone; its variables with it.
Finish ==
    /\ pc \in {"done", "failed"}
    /\ pc' = "idle"
    /\ env' = DefaultEnv /\ fetched' = NoFetch /\ scores' = NoScores
    /\ row' = <<>> /\ month_path' = 0 /\ err' = "none" /\ start' = NoStart
    /\ written' = <<>>
    /\ UNCHANGED <<runs, exit, clock, disk, hist, gj>>

Tick ==
    /\ pc \in {"build", "month", "latest"}
    /\ clock < MaxClock
    /\ clock' = clock + 1
    /\ UNCHANGED <<pc, runs, local, exit, disk, hist, gj>>

\* Runs one after the other, every file operation succeeding.
Next ==
    \/ StartRun \/ ComputeScores \/ BuildRow \/ WriteSignals \/ WriteMonth
    \/ WriteLatest \/ Report \/ Finish \/ Tick

Spec == Init /\ [][Next]_vars

\* One run, from its start to the exit of the process, in which a file
\* operation can fail.
NextFaulty ==
    \/ StartRun \/ ComputeScores \/ BuildRow \/ Tick
    \/ WriteSignals \/ WriteSignalsFails
    \/ WriteMonth \/ WriteMonthFails
    \/ WriteLatest \/ WriteLatestFails
    \/ Report

SpecFaulty == Init /\ [][NextFaulty]_vars

\* ------------------------------------------------------------------------
\* get_json(url, params) step by step, as called by fetch_btc_market and
\* fetch_stable_caps.  gj.log records the attempts and the sleeps in order.
\* ------------------------------------------------------------------------
rest == <<pc, runs, env, fetched, scores, row, month_path, err, exit, clock,
          signals, reports, latest, start, written, sig_base,
          sig_app, m_base, m_keys>>

GjEvent(kind, what) == [ev |-> kind, what |-> what]

\* The call: last_exc = None, the loop starts with attempt = 1.
GetJsonCall ==
    /\ gj.st \in {"idle", "returned", "raised"}
    /\ gj.calls < MaxCalls
    /\ \E u \in Urls :
          gj' = [GjIdle EXCEPT !.st = "try", !.calls = gj.calls + 1,
                               !.url = u, !.params = ParamsOf(u),
                               !.attempt = 1]
    /\ UNCHANGED rest

\* requests.get, raise_for_status and r.json succeed: return r.json()
AttemptReturns ==
    /\ gj.st = "try"
    /\ \E b \in Bodies :
          gj' = [gj EXCEPT !.st = "returned", !.ret = b,
                           !.log = Append(@, GjEvent("ok", b))]
    /\ UNCHANGED rest

\* The try block raises e: last_exc = e
AttemptFails ==
    /\ gj.st = "try"
    /\ \E e \in Excs :
          gj' = [gj EXCEPT !.st = IF SleepsAfterFailure(gj.attempt)
                                  THEN "sleep" ELSE "next",
                           !.last_exc = e,
                           !.log = Append(@, GjEvent("fail", e))]
    /\ UNCHANGED rest

\* time.sleep(SLEEP_BETWEEN_RETRIES)
Sleep ==
    /\ gj.st = "sleep"
    /\ gj' = [gj EXCEPT !.st = "next", !.sleeps = @ + 1,
                        !.log = Append(@, GjEvent("sleep", ""))]
    /\ UNCHANGED rest

\* The for statement: the next attempt, or the raise after the loop.
LoopNext ==
    /\ gj.st = "next"
    /\ IF MoreAttempts(gj.attempt)
       THEN gj' = [gj EXCEPT !.st = "try", !.attempt = @ + 1]
       ELSE gj' = [gj EXCEPT !.st = "raised",
                             !.raised = <<gj.url, gj.params, gj.last_exc>>]
    /\ UNCHANGED rest

NextFetch ==
    GetJsonCall \/ AttemptReturns \/ AttemptFails \/ Sleep \/ LoopNext

InitFetch ==
    /\ pc = "idle" /\ runs = 0 /\ exit = 0 /\ clock = 0
    /\ InitLocal
    /\ signals = NoFile /\ reports = NoReports /\ latest = NoLatest
    /\ sig_base = <<>> /\ sig_app = <<>> /\ m_base = NoReports
    /\ m_keys = NoKeys /\ gj = GjIdle

SpecFetch == InitFetch /\ [][NextFetch]_vars

\* ------------------------------------------------------------------------
\* compute_scores as a function of the responses and the weights
\* ------------------------------------------------------------------------
\* A series of n points: base, ..., base, prev, last.
Series(n, base, prev, last) ==
    [i \in 1..n |-> Num(IF i = n THEN last ELSE IF i = n - 1 THEN prev
                        ELSE base)]

SeriesLengths == {MinPoints, MinPoints + 1, 2 * MinPoints}

CloseShapes == {<<0, 0, 0>>, <<100, 100, 100>>, <<100, 100, 110>>,
                <<100, 110, 90>>, <<100, 90, 100>>, <<1, 1, 2>>}

VolumeShapes == {<<1000, 1000, 1000>>, <<1000, 1000, 1010>>,
                 <<1000, 1001, 990>>, <<0, 0, 0>>, <<5, 5, 9>>}

AllCloses == {Series(n, c[1], c[2], c[3]) : n \in SeriesLengths,
                                           c \in CloseShapes}

AllVolumes == {Series(n, c[1], c[2], c[3]) : n \in {MinPoints, MinPoints + 1},
                                            c \in VolumeShapes}

AllStables ==
    { <<>>,
      <<StableRow(Num(1000), Num(0))>>,
      <<StableRow(Num(600), Num(0 - 15)), StableRow(Num(400), Num(0 - 5))>>,
      <<StableRow(Num(1000), Num(20))>>,
      <<StableRow(Num(1000), Num(3)), NoChangeRow(Num(500))>>,
      <<StableRow(Num(0), Num(5))>>,
      <<[has_cap |-> FALSE, market_cap |-> Fl(0), has_change |-> TRUE,
         market_cap_change_24h |-> Num(5)]>> }

SameW(w) == [etf |-> w, stables |-> w, stress |-> w]

\* The defaults, weights summing to 3, very large weights, negative
\* weights, a mix, and weights that are not numbers.
AllWeights ==
    { DefaultW, SameW(Num(1)), SameW(Num(500)), SameW(Num(0 - 2)),
      SameW(Fl(0)), SameW(NaN),
      [etf |-> Num(2), stables |-> Num(0 - 1), stress |-> NaN],
      [etf |-> Num(0 - 500), stables |-> Num(500), stress |-> Fl(1)] }

InitScores ==
    /\ pc = "compute" /\ runs = 1 /\ exit = 0 /\ clock = 0
    /\ \E w \in AllWeights : env = [DefaultEnv EXCEPT !.W = w]
    /\ \E c \in AllCloses, v \in AllVolumes, j \in AllStables :
          fetched = [market |-> Market(c, v), markets |-> Markets(j)]
    /\ scores = NoScores /\ row = <<>> /\ month_path = 0 /\ err = "none"
    /\ start = NoStart /\ written = <<>>
    /\ signals = NoFile /\ reports = NoReports /\ latest = NoLatest
    /\ sig_base = <<>> /\ sig_app = <<>> /\ m_base = NoReports
    /\ m_keys = NoKeys /\ gj = GjIdle

\* scores = compute_scores() on the responses drawn.
ApplyScores ==
    /\ pc = "compute"
    /\ LET r == compute_scores(fetched.market, fetched.markets, env.W)
       IN  /\ r.err = "none"
           /\ scores' = r.scores
    /\ pc' = StepAfter(pc)
    /\ UNCHANGED <<runs, env, fetched, row, month_path, err, exit, clock,
                   disk, start, written, hist, gj>>

SpecScores == InitScores /\ [][ApplyScores]_vars

\* ------------------------------------------------------------------------
\* Vocabulary of the properties
\* ------------------------------------------------------------------------
IsPrefix(s, t) == Len(s) <= Len(t) /\ SubSeq(t, 1, Len(s)) = s

Rest(s) == IF s = <<>> THEN <<>> ELSE Tail(s)

\* The records of a file after its first line.
DataRecords(file) == IF file.exists THEN Rest(reader(file.text)) ELSE <<>>

KeyCount(rows, k) ==
    Cardinality({i \in 1..Len(rows) : Len(rows[i]) >= 3 /\ RowKey(rows[i]) = k})

Count(log, kind) == Cardinality({i \in 1..Len(log) : log[i].ev = kind})

\* The numerals, stated by their shape: blanks, an optional sign, a body,
\* blanks.
Padded(x, Body(_)) ==
    \E a \in 0..Len(x) :
        /\ \A i \in 1..a : x[i] = " "
        /\ \E b \in 0..(Len(x) - a - 1) :
              /\ \A i \in (Len(x) - b + 1)..Len(x) : x[i] = " "
              /\ LET core == SubSeq(x, a + 1, Len(x) - b)
                 IN  \/ Body(core)
                     \/ core[1] \in {"+", "-"} /\ Body(Tail(core))

IntBody(d) == d # <<>> /\ \A i \in 1..Len(d) : d[i] \in Digits

FloatBody(d) ==
    \/ d \in {<<"nan">>, <<"inf">>}
    \/ \E p \in 0..Len(d) :
          \* p digits, then nothing or a point and the remaining digits
          /\ \A i \in 1..p : d[i] \in Digits
          /\ \/ p = Len(d) /\ p >= 1
             \/ /\ p < Len(d) /\ d[p + 1] = "." /\ Len(d) >= 2
                /\ \A i \in (p + 2)..Len(d) : d[i] \in Digits

IntText(x) == Padded(x, IntBody)

FloatText(x) == Padded(x, FloatBody)

TimestampTexts ==
    {<<a, " ", b>> : a \in Digits, b \in Digits}
        \cup {<<a, "T", b, "Z">> : a \in Digits, b \in Digits}

\* A well-formed record, stated by the shape of its fields.
ValidRecord(r) ==
    /\ Len(r) = 10
    /\ r[1] \in TimestampTexts
    /\ IntText(r[4])
    /\ \A k \in {5, 7, 8, 9, 10} : FloatText(r[k])

\* Three kinds of malformed record: a field short, a leverage that is no
\* integer, a score that is no float.
Malformed(r) ==
    \/ Len(r) = 9
    \/ Len(r) = 10 /\ ~IntText(r[4])
    \/ Len(r) = 10 /\ \E k \in {7, 8, 9, 10} : ~FloatText(r[k])

Select(rows, P(_)) == SelectSeq(rows, P)

Has(rows, P(_)) == \E i \in 1..Len(rows) : P(rows[i])

InRun == pc \notin {"idle"}

\* ------------------------------------------------------------------------
\* Properties
\* ------------------------------------------------------------------------

\* C1.  Monthly dedup.  For a monthly file that held no valid row with key
\* K when the calls began, after one, two or more calls of write_month_csv
\* with a new row of key K the file holds exactly one row with key K.  The
\* call of the current run, when its row's key was among the file's valid
\* rows, left those rows as they were (it appended the row otherwise), and
\* when an earlier call had brought the key into the file, it left the
\* file's text as it was.
MonthlyDedup ==
    /\ \A m \in Months :
          \A i \in 1..Len(m_keys[m]) :
             KeyCount(load_and_clean_csv(m_base[m]), m_keys[m][i]) = 0
                => KeyCount(DataRecords(reports[m]), m_keys[m][i]) = 1
    /\ (InRun /\ Len(written) >= 2) =>
          LET before == load_and_clean_csv(start.reports[month_path])
              after == load_and_clean_csv(reports[month_path])
              keys == m_keys[month_path]
          IN  /\ IF KeyCount(before, RowKey(row)) > 0 THEN after = before
                 ELSE after = Append(before, row)
              /\ (\E i \in 1..(Len(keys) - 1) : keys[i] = RowKey(row))
                    => reports[month_path] = start.reports[month_path]

\* C1 witness: two calls with the same key on a file that held no row with
\* that key.
MonthlyDedupWitness ==
    \E m \in Months :
        /\ Len(m_keys[m]) >= 2
        /\ m_keys[m][1] = m_keys[m][2]
        /\ KeyCount(DataRecords(m_base[m]), m_keys[m][1]) = 0
        /\ reports[m].exists

\* C2.  write_signals_csv appends unconditionally: the valid rows of
\* signals.csv are the valid rows it held, in order, followed by every row
\* appended since, a row equal to an earlier one included; the call of the
\* current run left the valid rows it found followed by the new row.
CumulativeAppend ==
    LET rows == load_and_clean_csv(signals)
    IN  /\ rows = sig_base \o sig_app
        /\ sig_app # <<>> => DataRecords(signals) = rows
        /\ (InRun /\ Len(written) >= 1) =>
              rows = Append(load_and_clean_csv(start.signals), row)

\* C2 witness: the same row appended twice to a log that held valid rows.
CumulativeAppendWitness ==
    /\ Len(sig_app) >= 2 /\ sig_app[1] = sig_app[2]
    /\ Len(sig_base) >= 2
    /\ Len(load_and_clean_csv(signals)) = Len(sig_base) + 2

\* C3.  When the market response holds fewer than 15 close points or fewer
\* than 15 volume points, the run ends with the insufficient-data error and
\* the three output files are as they were before the run.
ShortDataWritesNothing ==
    ( /\ pc \notin {"idle", "compute"}
      /\ fetched.market.ok
      /\ \/ Len(fetched.market.prices) < MinPoints
         \/ Len(fetched.market.total_volumes) < MinPoints )
    => /\ pc = "failed" /\ err = "NotEnoughData" /\ exit # 0
       /\ written = <<>>
       /\ signals = start.signals /\ reports = start.reports
       /\ latest = start.latest

\* C3 witness: a run on a disk holding earlier files ended on 14 close
\* points.
ShortDataWitness ==
    /\ pc = "failed" /\ err = "NotEnoughData"
    /\ Len(fetched.market.prices) = MinPoints - 1
    /\ start.signals.exists /\ start.latest.exists

\* C4.  A call of get_json makes at most RETRIES attempts; it returns the
\* body of its first successful attempt and makes no attempt after it; it
\* raises, with the URL, the parameters and the last error, exactly when
\* RETRIES attempts have failed.
GetJsonAttempts ==
    LET fails == Count(gj.log, "fail")
        oks == Count(gj.log, "ok")
        lastFail == CHOOSE i \in 1..Len(gj.log) :
                       /\ gj.log[i].ev = "fail"
                       /\ \A k \in (i + 1)..Len(gj.log) : gj.log[k].ev # "fail"
    IN  /\ fails + oks <= RETRIES
        /\ gj.attempt = fails + oks + (IF gj.st = "try" THEN 1 ELSE 0)
        /\ oks <= 1
        /\ oks = 1 <=> gj.st = "returned"
        /\ gj.st = "returned" =>
              /\ Last(gj.log).ev = "ok" /\ gj.ret = Last(gj.log).what
        /\ gj.st = "raised" =>
              /\ fails = RETRIES /\ oks = 0
              /\ gj.raised = <<gj.url, gj.params, gj.log[lastFail].what>>
        /\ (fails = RETRIES /\ gj.st \notin {"sleep", "next"})
              => gj.st = "raised"

\* C4 witness: a call raised after RETRIES failed attempts.
GetJsonRaisedWitness ==
    /\ gj.st = "raised" /\ Count(gj.log, "fail") = RETRIES
    /\ gj.raised[3] = "HTTPError"

\* C5.  load_and_clean_csv returns, in file order, exactly the records
\* after the first line that are well formed; a file the run has rewritten
\* holds none of the malformed rows it held.
SanitizerKeepsValidOnly ==
    LET recs == DataRecords(signals)
    IN  /\ load_and_clean_csv(signals) = Select(recs, ValidRecord)
        /\ \A m \in Months :
              load_and_clean_csv(reports[m])
                 = Select(DataRecords(reports[m]), ValidRecord)
        /\ (InRun /\ Len(written) >= 1) =>
              /\ ~Has(recs, Malformed)
              /\ recs = Append(Select(DataRecords(start.signals),
                                      ValidRecord), row)
        /\ (InRun /\ Len(written) >= 2) =>
              ~Has(DataRecords(reports[month_path]), Malformed)

\* C5 witness: both logs held rows of the malformed kinds and were
\* rewritten.
SanitizerWitness ==
    /\ InRun /\ Len(written) >= 2
    /\ \E i \in 1..Len(DataRecords(start.signals)) :
          Len(DataRecords(start.signals)[i]) = 9
    /\ \E i \in 1..Len(DataRecords(start.signals)) :
          LET r == DataRecords(start.signals)[i]
          IN  Len(r) = 10 /\ ~IntText(r[4])
    /\ \E i \in 1..Len(DataRecords(start.reports[month_path])) :
          LET r == DataRecords(start.reports[month_path])[i]
          IN  Len(r) = 10 /\ ~FloatText(r[8])
    /\ Len(load_and_clean_csv(start.signals)) >= 2

\* C6.  Round trip: the row build_new_row made passes the sanitizer, and
\* after write_signals_csv the last row load_and_clean_csv returns for
\* signals.csv is that row, field for field.
RoundTrip ==
    /\ pc \in {"signals", "month", "latest", "report", "done"} =>
          /\ Len(row) = 10 /\ ValidRecord(row)
          /\ reader(writerow(row)) = <<row>>
    /\ (InRun /\ Len(written) >= 1) =>
          LET rows == load_and_clean_csv(signals)
          IN  /\ rows # <<>>
              /\ \A k \in 1..10 : Last(rows)[k] = row[k]

\* C6 witness: a written row whose labels hold a comma, a quote and a line
\* break.
RoundTripWitness ==
    /\ InRun /\ Len(written) >= 1
    /\ Contains(row[2], Comma) /\ Contains(row[2], Quote)
    /\ Contains(row[6], NL)
    /\ Last(load_and_clean_csv(signals)) = row

\* C7.  The four scores compute_scores returns lie in [0, 1].
ScoresInUnitInterval ==
    pc = "build" =>
       \A k \in {"Score_ETF", "Score_Stables", "Score_Stress",
                 "Score_Gewichtet"} :
          /\ ~scores[k].nan
          /\ 0 <= scores[k].v /\ scores[k].v <= Scale

\* C7 witness: very large weights, and the weighted score at its ceiling.
ScoresWitness ==
    /\ pc = "build"
    /\ env.W = SameW(Num(500))
    /\ scores.Score_Gewichtet = Num(1)
    /\ scores.Score_ETF.v > 0

\* C8 as claimed.  The month of the monthly file written equals the month
\* of the row's timestamp.
MonthFileIsRowsMonth ==
    (InRun /\ Len(written) >= 2) => Digit(month_path) = row[1][1]

\* C9.  The writes of a run are made in the order signals.csv, monthly
\* file, latest.json.  A run that fails exits non-zero; the files of the
\* steps it completed are as those steps wrote them, the files of the steps
\* after the failed one are as they were before the run; latest.json
\* changes only after both logs were written.
WriteOrderNoRollback ==
    LET done == Len(written)
        touched == done + (IF pc = "failed" /\ err = "IOError" THEN 1 ELSE 0)
    IN  /\ IsPrefix(written, Steps)
        /\ pc = "failed" => exit # 0 /\ err # "none"
        /\ pc = "done" => exit = 0 /\ written = Steps
        /\ InRun =>
              /\ done >= 1 =>
                    signals = File(write_signals_csv(start.signals, row))
              /\ done >= 2 =>
                    /\ reports[month_path]
                          = File(write_month_csv(start.reports[month_path],
                                                 row))
                    /\ \A m \in Months \ {month_path} :
                          reports[m] = start.reports[m]
              /\ done >= 3 => latest.whole /\ latest.scores = scores
              /\ touched < 1 => signals = start.signals
              /\ touched < 2 => reports = start.reports
              /\ touched < 3 => latest = start.latest
              /\ latest # start.latest => done >= 2

\* C9 witness: the monthly write failed and damaged its file; signals.csv
\* stays as written and latest.json as it was.
NoRollbackWitness ==
    /\ pc = "failed" /\ err = "IOError" /\ written = <<"signals">>
    /\ signals # start.signals
    /\ reports # start.reports
    /\ latest = start.latest /\ latest.exists

\* C10 as claimed.  A call whose RETRIES attempts all failed slept
\* RETRIES - 1 times, and not after its last failed attempt.
SleepsOnlyBetweenAttempts ==
    gj.st = "raised" =>
       /\ gj.sleeps = RETRIES - 1
       /\ Last(gj.log).ev = "fail"

=============================================================================
